---- MODULE Spec2Model ----
(***************************************************************************)
(* Model of src/main.rs:                                                   *)
(*                                                                         *)
(*     fn main() {                                                         *)
(*         SimpleLogger::new().init().expect("Failed to initialize logger");*)
(*         log_a();                                                        *)
(*         log_b();                                                        *)
(*     }                                                                   *)
(*                                                                         *)
(* The state of one process is the process-wide logger of the `log`        *)
(* facade (the installed sink and the global maximum level), the position  *)
(* of main, the records written to the output stream and the way the       *)
(* process ended.  Two independent processes are modelled side by side so  *)
(* that runs can be compared with each other.                              *)
(***************************************************************************)
EXTENDS Integers, Sequences, FiniteSets, TLC

\* Number of times code running before main (same process) may already have
\* called the initialisation step.
MaxPriorInits == 2

\* Independent process executions of the program.
Runs == {1, 2}

\* log::Level, ordered as in the log crate: Error < Warn < Info < Debug < Trace.
Level == [Error |-> 1, Warn |-> 2, Info |-> 3, Debug |-> 4, Trace |-> 5]

Levels == {Level.Error, Level.Warn, Level.Info, Level.Debug, Level.Trace}

\* log::LevelFilter::Off, the value of the global maximum level at process start.
LevelFilterOff == Level.Error - 1

\* SimpleLogger::new() : the default level of a freshly built SimpleLogger.
DefaultLevel == Level.Trace

\* The message handed to expect() in main.
ExpectMsg == "Failed to initialize logger"

VARIABLES
    pc,         \* pc[r]        : position of main in process r
    logger,     \* logger[r]    : 0 = no sink installed, n > 0 = the sink built by the n-th init attempt
    maxLevel,   \* maxLevel[r]  : the log facade's global maximum level
    output,     \* output[r]    : records written to the output stream, in order
    exitCode,   \* exitCode[r]  : <<>> while running, <<c>> once the process ended with status c
    diag,       \* diag[r]      : parts of the panic message written to stderr
    attempts,   \* attempts[r]  : init attempts made so far in the process
    successes,  \* successes[r] : init attempts that returned Ok
    lastInit,   \* lastInit[r]  : result of the latest init attempt
    events,     \* events[r]    : observable events of main, in order
    entrySink   \* entrySink[r] : whether a sink was installed when main was entered

vars == <<pc, logger, maxLevel, output, exitCode, diag, attempts, successes,
          lastInit, events, entrySink>>

Upd(f, r, v) == [f EXCEPT ![r] = v]

Init ==
    /\ pc = [r \in Runs |-> "boot"]
    /\ logger = [r \in Runs |-> 0]
    /\ maxLevel = [r \in Runs |-> LevelFilterOff]
    /\ output = [r \in Runs |-> <<>>]
    /\ exitCode = [r \in Runs |-> <<>>]
    /\ diag = [r \in Runs |-> <<>>]
    /\ attempts = [r \in Runs |-> 0]
    /\ successes = [r \in Runs |-> 0]
    /\ lastInit = [r \in Runs |-> "None"]
    /\ events = [r \in Runs |-> <<>>]
    /\ entrySink = [r \in Runs |-> FALSE]

\* log::set_boxed_logger : installs the sink only when none is installed,
\* otherwise returns SetLoggerError and leaves the installed sink alone.
SetBoxedLoggerOverwrite(cur, new) == [logger |-> new, res |-> "Ok"]

SetBoxedLoggerInverted(cur, new) ==
    IF cur # 0
    THEN [logger |-> new, res |-> "Ok"]
    ELSE [logger |-> cur, res |-> "SetLoggerError"]

SetBoxedLogger(cur, new) ==
    IF cur = 0
    THEN [logger |-> new, res |-> "Ok"]
    ELSE [logger |-> cur, res |-> "SetLoggerError"]

\* SimpleLogger::new().init() : sets the global maximum level, then tries to
\* install the new SimpleLogger as the process-wide sink.
SimpleLoggerInitNoLevel(r) ==
    LET res == SetBoxedLogger(logger[r], attempts[r] + 1) IN
    /\ attempts' = Upd(attempts, r, attempts[r] + 1)
    /\ maxLevel' = maxLevel
    /\ logger' = Upd(logger, r, res.logger)
    /\ lastInit' = Upd(lastInit, r, res.res)
    /\ successes' = Upd(successes, r, successes[r] + (IF res.res = "Ok" THEN 1 ELSE 0))

SimpleLoggerInit(r) ==
    LET res == SetBoxedLogger(logger[r], attempts[r] + 1) IN
    /\ attempts' = Upd(attempts, r, attempts[r] + 1)
    /\ maxLevel' = Upd(maxLevel, r, DefaultLevel)
    /\ logger' = Upd(logger, r, res.logger)
    /\ lastInit' = Upd(lastInit, r, res.res)
    /\ successes' = Upd(successes, r, successes[r] + (IF res.res = "Ok" THEN 1 ELSE 0))

\* The log! macro as used by a reporting function: the record is handed to
\* the installed sink when its level passes the global maximum level; with
\* no sink installed it goes to the no-op logger and is lost.
LogRecord(r, src, lvl) ==
    IF lvl <= maxLevel[r] /\ logger[r] # 0
    THEN Append(output[r], [src |-> src, level |-> lvl, sink |-> logger[r]])
    ELSE output[r]

\* Code of the same process that ran before main and called the
\* initialisation step.
PriorInit(r) ==
    /\ pc[r] = "boot"
    /\ attempts[r] < MaxPriorInits
    /\ SimpleLoggerInit(r)
    /\ UNCHANGED <<pc, output, exitCode, diag, events, entrySink>>

\* main is entered.
MainStart(r) ==
    /\ pc[r] = "boot"
    /\ pc' = Upd(pc, r, "init")
    /\ entrySink' = Upd(entrySink, r, logger[r] # 0)
    /\ UNCHANGED <<logger, maxLevel, output, exitCode, diag, attempts,
                   successes, lastInit, events>>

\* main.rs 6-8 : SimpleLogger::new().init().expect("Failed to initialize logger")
\* On Err, expect panics: the message and the error are written to stderr and
\* the process ends with the panic status 101.
MainInitIgnoreErr(r) ==
    /\ pc[r] = "init"
    /\ SimpleLoggerInit(r)
    /\ pc' = Upd(pc, r, "callA")
    /\ events' = Upd(events, r, Append(events[r],
                    IF lastInit'[r] = "Ok" THEN "InitOk" ELSE "InitErr"))
    /\ UNCHANGED <<output, exitCode, diag, entrySink>>

MainInitFlaky(r) ==
    /\ pc[r] = "init"
    /\ SimpleLoggerInit(r)
    /\ \E fail \in BOOLEAN :
        IF lastInit'[r] = "Ok" /\ ~fail
        THEN /\ pc' = Upd(pc, r, "callA")
             /\ events' = Upd(events, r, Append(events[r], "InitOk"))
             /\ UNCHANGED <<exitCode, diag>>
        ELSE /\ pc' = Upd(pc, r, "exited")
             /\ events' = Upd(events, r, events[r] \o <<"InitErr", "Panic">>)
             /\ diag' = Upd(diag, r, <<ExpectMsg, lastInit'[r]>>)
             /\ exitCode' = Upd(exitCode, r, <<101>>)
    /\ UNCHANGED <<output, entrySink>>

MainInit(r) ==
    /\ pc[r] = "init"
    /\ SimpleLoggerInit(r)
    /\ IF lastInit'[r] = "Ok"
       THEN /\ pc' = Upd(pc, r, "callA")
            /\ events' = Upd(events, r, Append(events[r], "InitOk"))
            /\ UNCHANGED <<exitCode, diag>>
       ELSE /\ pc' = Upd(pc, r, "exited")
            /\ events' = Upd(events, r, events[r] \o <<"InitErr", "Panic">>)
            /\ diag' = Upd(diag, r, <<ExpectMsg, lastInit'[r]>>)
            /\ exitCode' = Upd(exitCode, r, <<101>>)
    /\ UNCHANGED <<output, entrySink>>

\* main.rs 9 : log_a() is called.
EnterASkip(r) ==
    /\ pc[r] = "callA"
    /\ pc' = Upd(pc, r, "callB")
    /\ UNCHANGED <<logger, maxLevel, output, exitCode, diag, attempts,
                   successes, lastInit, events, entrySink>>

EnterA(r) ==
    /\ pc[r] = "callA"
    /\ pc' = Upd(pc, r, "inA")
    /\ events' = Upd(events, r, Append(events[r], "CallA"))
    /\ UNCHANGED <<logger, maxLevel, output, exitCode, diag, attempts,
                   successes, lastInit, entrySink>>

\* a::log emits its one record, at a level of its choosing.
LogA(r) ==
    /\ pc[r] = "inA"
    /\ \E lvl \in Levels : output' = Upd(output, r, LogRecord(r, "A", lvl))
    /\ pc' = Upd(pc, r, "loggedA")
    /\ UNCHANGED <<logger, maxLevel, exitCode, diag, attempts, successes,
                   lastInit, events, entrySink>>

\* log_a() returns to main.
ReturnARepeat(r) ==
    /\ pc[r] = "loggedA"
    /\ pc' = Upd(pc, r, IF Len(output[r]) < 2 THEN "callA" ELSE "callB")
    /\ events' = Upd(events, r, Append(events[r], "RetA"))
    /\ UNCHANGED <<logger, maxLevel, output, exitCode, diag, attempts,
                   successes, lastInit, entrySink>>

ReturnA(r) ==
    /\ pc[r] = "loggedA"
    /\ pc' = Upd(pc, r, "callB")
    /\ events' = Upd(events, r, Append(events[r], "RetA"))
    /\ UNCHANGED <<logger, maxLevel, output, exitCode, diag, attempts,
                   successes, lastInit, entrySink>>

\* main.rs 10 : log_b() is called.
EnterBFirst(r) ==
    /\ pc[r] \in {"callA", "callB"}
    /\ pc' = Upd(pc, r, "inB")
    /\ events' = Upd(events, r, Append(events[r], "CallB"))
    /\ UNCHANGED <<logger, maxLevel, output, exitCode, diag, attempts,
                   successes, lastInit, entrySink>>

EnterB(r) ==
    /\ pc[r] = "callB"
    /\ pc' = Upd(pc, r, "inB")
    /\ events' = Upd(events, r, Append(events[r], "CallB"))
    /\ UNCHANGED <<logger, maxLevel, output, exitCode, diag, attempts,
                   successes, lastInit, entrySink>>

\* b::log emits its one record, at a level of its choosing.
LogB(r) ==
    /\ pc[r] = "inB"
    /\ \E lvl \in Levels : output' = Upd(output, r, LogRecord(r, "B", lvl))
    /\ pc' = Upd(pc, r, "loggedB")
    /\ UNCHANGED <<logger, maxLevel, exitCode, diag, attempts, successes,
                   lastInit, events, entrySink>>

\* log_b() returns to main.
ReturnB(r) ==
    /\ pc[r] = "loggedB"
    /\ pc' = Upd(pc, r, "ret")
    /\ events' = Upd(events, r, Append(events[r], "RetB"))
    /\ UNCHANGED <<logger, maxLevel, output, exitCode, diag, attempts,
                   successes, lastInit, entrySink>>

\* main.rs 11 : main returns and the process ends with status 0.
MainReturnAbnormal(r) ==
    /\ pc[r] = "ret"
    /\ pc' = Upd(pc, r, "exited")
    /\ exitCode' = Upd(exitCode, r, <<101>>)
    /\ events' = Upd(events, r, Append(events[r], "Panic"))
    /\ UNCHANGED <<logger, maxLevel, output, diag, attempts, successes,
                   lastInit, entrySink>>

MainReturn(r) ==
    /\ pc[r] = "ret"
    /\ pc' = Upd(pc, r, "exited")
    /\ exitCode' = Upd(exitCode, r, <<0>>)
    /\ events' = Upd(events, r, Append(events[r], "Exit0"))
    /\ UNCHANGED <<logger, maxLevel, output, diag, attempts, successes,
                   lastInit, entrySink>>

\* The steps of main itself.
MainNext(r) ==
    \/ MainStart(r)
    \/ MainInit(r)
    \/ EnterA(r)
    \/ LogA(r)
    \/ ReturnA(r)
    \/ EnterB(r)
    \/ LogB(r)
    \/ ReturnB(r)
    \/ MainReturn(r)

Next == \E r \in Runs : PriorInit(r) \/ MainNext(r)

Spec == Init /\ [][Next]_vars

\* main is single-threaded straight-line code: once the process runs, each
\* step of main is eventually taken.
FairSpec == Spec /\ \A r \in Runs : WF_vars(MainNext(r))

----
\* Helpers for the properties.

RECURSIVE Count(_, _)
Count(s, e) ==
    IF s = <<>> THEN 0
    ELSE (IF Head(s) = e THEN 1 ELSE 0) + Count(Tail(s), e)

Occurs(s, e) == \E i \in 1..Len(s) : s[i] = e

Sources(s) == [i \in 1..Len(s) |-> s[i].src]

RecordsOf(r, src) == {i \in 1..Len(output[r]) : output[r][i].src = src}

InitFailed(r) == Occurs(events[r], "InitErr")

InitSucceeded(r) == Occurs(events[r], "InitOk")

NormalExit(r) == pc[r] = "exited" /\ exitCode[r] = <<0>>

InCall(r) == pc[r] \in {"inA", "loggedA", "inB", "loggedB"}

FullTrace == <<"InitOk", "CallA", "RetA", "CallB", "RetB", "Exit0">>

----
\* C1: when the initialisation step of main fails (a sink was already
\* installed), neither log_a nor log_b is ever called and no record of theirs
\* is written; the process has ended with the non-zero panic status and a
\* diagnostic that contains "Failed to initialize logger".
C1_InitFailureIsFatal ==
    \A r \in Runs :
        InitFailed(r) =>
            /\ ~Occurs(events[r], "CallA")
            /\ ~Occurs(events[r], "CallB")
            /\ output[r] = <<>>
            /\ pc[r] = "exited"
            /\ exitCode[r] # <<>>
            /\ exitCode[r] # <<0>>
            /\ Occurs(diag[r], ExpectMsg)

C1_Witness ==
    \E r \in Runs : entrySink[r] /\ InitFailed(r) /\ exitCode[r] = <<101>>

\* C2: whenever log_b is called, log_a was called and returned before that
\* call, and every record written by A precedes every record written by B in
\* the output.
C2_ABeforeB ==
    \A r \in Runs :
        /\ \A i \in 1..Len(events[r]) :
              events[r][i] = "CallB" =>
                  \E j \in 1..i, k \in 1..i :
                      /\ j < k
                      /\ k < i
                      /\ events[r][j] = "CallA"
                      /\ events[r][k] = "RetA"
        /\ \A i \in RecordsOf(r, "A"), j \in RecordsOf(r, "B") : i < j

C2_Witness ==
    \E r \in Runs :
        /\ Occurs(events[r], "CallB")
        /\ RecordsOf(r, "A") # {}
        /\ RecordsOf(r, "B") # {}

\* C3: in one process at most one initialisation attempt succeeds, and every
\* attempt made while a sink is installed fails with SetLoggerError (the
\* already-initialised error kind) and is not counted as a success.
C3_AtMostOneInitSucceeds ==
    /\ [](\A r \in Runs : successes[r] <= 1)
    /\ [][\A r \in Runs :
            (logger[r] # 0 /\ attempts'[r] # attempts[r]) =>
                (lastInit'[r] = "SetLoggerError" /\ successes'[r] = successes[r])]_vars

C3_Witness ==
    \E r \in Runs :
        attempts[r] >= 2 /\ successes[r] = 1 /\ lastInit[r] = "SetLoggerError"

\* C4: in a fresh process the first (single) call of the initialisation step
\* succeeds and leaves the process-wide sink installed.
C4_FreshInitSucceeds ==
    \A r \in Runs :
        attempts[r] = 1 =>
            /\ lastInit[r] = "Ok"
            /\ successes[r] = 1
            /\ logger[r] # 0

C4_Witness ==
    \E r \in Runs : attempts[r] = 1 /\ ~entrySink[r] /\ InitSucceeded(r)

\* C5: main entered in a fresh process (no sink installed) always terminates,
\* with status 0, after initialise (success), call A, call B in that order,
\* and the output holds A's record strictly before B's.
C5_FreshRunExitsZero ==
    \A r \in Runs :
        (pc[r] = "init" /\ ~entrySink[r]) ~>
            (/\ NormalExit(r)
             /\ events[r] = FullTrace
             /\ Sources(output[r]) = <<"A", "B">>)

C5_Witness ==
    \E r \in Runs :
        ~entrySink[r] /\ NormalExit(r) /\ Sources(output[r]) = <<"A", "B">>

\* C6: the process only ever ends abnormally in the initialisation step of
\* main, on its error; once initialisation has succeeded there is never an
\* error state and the run goes on through call A and call B to exit 0.
C6_OnlyInitFails ==
    /\ [][\A r \in Runs :
            (exitCode[r] = <<>> /\ exitCode'[r] # <<>> /\ exitCode'[r] # <<0>>) =>
                (pc[r] = "init" /\ lastInit'[r] = "SetLoggerError")]_vars
    /\ [](\A r \in Runs :
            InitSucceeded(r) => (exitCode[r] \in {<<>>, <<0>>} /\ diag[r] = <<>>))
    /\ \A r \in Runs :
            InitSucceeded(r) ~>
                (/\ NormalExit(r)
                 /\ Occurs(events[r], "CallA")
                 /\ Occurs(events[r], "CallB"))

C6_Witness ==
    /\ \E r \in Runs : InitSucceeded(r) /\ NormalExit(r)
    /\ \E r \in Runs : exitCode[r] = <<101>>

\* C7: an installed sink is never replaced or removed: no step (call A, call
\* B, a failed initialisation attempt, exit) changes it.
C7_SinkNeverChanges ==
    [][\A r \in Runs : logger[r] # 0 => logger'[r] = logger[r]]_vars

C7_Witness ==
    /\ \E r \in Runs :
          logger[r] # 0 /\ attempts[r] > logger[r] /\ lastInit[r] = "SetLoggerError"
    /\ \E r \in Runs : logger[r] # 0 /\ Len(output[r]) = 2

\* C8: while A or B is being called the sink is installed; every record
\* written went through the installed sink; A has written exactly one record
\* once it has logged, and B likewise.
C8_RecordsGoToSink ==
    \A r \in Runs :
        /\ InCall(r) => logger[r] # 0
        /\ \A i \in 1..Len(output[r]) :
              logger[r] # 0 /\ output[r][i].sink = logger[r]
        /\ pc[r] \in {"boot", "init", "callA", "inA"} => output[r] = <<>>
        /\ pc[r] \in {"loggedA", "callB", "inB"} =>
              Cardinality(RecordsOf(r, "A")) = 1 /\ RecordsOf(r, "B") = {}
        /\ (pc[r] \in {"loggedB", "ret"} \/ NormalExit(r)) =>
              Cardinality(RecordsOf(r, "A")) = 1 /\ Cardinality(RecordsOf(r, "B")) = 1

C8_Witness ==
    \E r \in Runs :
        /\ pc[r] = "loggedB"
        /\ logger[r] # 0
        /\ Len(output[r]) = 2
        /\ output[r][1].level # output[r][2].level

\* C9: in one run of main the initialisation step is attempted at most once
\* (exactly once by the time the process has ended), A and B are each called
\* at most once, and a run that ended normally called each exactly once and
\* wrote exactly two records.
C9_EachStepOnce ==
    \A r \in Runs :
        /\ Count(events[r], "InitOk") + Count(events[r], "InitErr") <= 1
        /\ Count(events[r], "CallA") <= 1
        /\ Count(events[r], "CallB") <= 1
        /\ pc[r] = "exited" =>
              Count(events[r], "InitOk") + Count(events[r], "InitErr") = 1
        /\ NormalExit(r) =>
              /\ Count(events[r], "CallA") = 1
              /\ Count(events[r], "CallB") = 1
              /\ Len(output[r]) = 2

C9_Witness ==
    \E r \in Runs : NormalExit(r) /\ Len(events[r]) = Len(FullTrace)

\* C10: two runs that entered main with the same sink state (both
\* uninstalled or both installed) and have ended performed the same sequence
\* of observable events, whatever else differed between them.
C10_Deterministic ==
    \A r1 \in Runs, r2 \in Runs :
        (pc[r1] = "exited" /\ pc[r2] = "exited" /\ entrySink[r1] = entrySink[r2])
            => events[r1] = events[r2]

C10_Witness ==
    /\ \A r \in Runs : pc[r] = "exited"
    /\ \E r1 \in Runs, r2 \in Runs :
          /\ r1 # r2
          /\ entrySink[r1] = entrySink[r2]
          /\ (output[r1] # output[r2] \/ attempts[r1] # attempts[r2])

====
